---- MODULE Spec2Model ----
(***************************************************************************)
(* subrepo-install: the incremental synchronisation engine subrepoInstall  *)
(* (src/unnamed/part_000), as a state machine.  One run of subrepoInstall  *)
(* is a sequence of steps, one per external command or group of file       *)
(* operations; between runs the environment (remote, configuration,        *)
(* working trees, package descriptors) may change.                         *)
(***************************************************************************)
EXTENDS Integers, Sequences, FiniteSets, TLC

\* ------------------------------------------------------------------ bounds
\* Commits of the upstream history are 1..MaxCommit.
MaxCommit == 2
\* Environment changes (remote moves, edits of the configuration, ...) per behaviour.
MaxEnv == 2
\* Commands exiting non-zero, or interruptions of the process, per behaviour.
MaxFail == 1
\* Names in a path below the working directory.
MaxDepth == 2
\* Links a path walk follows before it gives up.
MaxHops == 3
\* Calls of ensureSymlink with one pair.
MaxCalls == 2

\* ------------------------------------------------------- program constants
\* /^[0-9a-f]{40}$/ and .slice(0, 40)
HashLen == 40

Commits == 1..MaxCommit

\* ------------------------------------------------------------ strings
LowerHex == {"0", "1", "2", "3", "4", "5", "6", "7", "8", "9",
             "a", "b", "c", "d", "e", "f"}
HexDigit == <<"1", "2", "3", "4", "5", "6", "7", "8", "9",
              "a", "b", "c", "d", "e", "f">>

\* The 40-character name of commit c, as `git rev-parse HEAD` prints it.
HashOf(c) == [k \in 1..HashLen |-> HexDigit[c]]

\* Subrepo.ref left undefined.
NoRef == <<>>
\* A branch name.
Main == <<"m", "a", "i", "n">>
\* The name of an annotated tag.
Tag == <<"v", "1">>
\* The name of the tag object of Tag (not a commit), and the commit it points at.
TagObject == [k \in 1..HashLen |-> "0"]
TagCommit == 1
\* An abbreviated commit hash ("it's recommended to use the full hash").
ShortHash == SubSeq(HashOf(1), 1, 7)

\* String.prototype.slice(0, n)
Slice(s, n) == SubSeq(s, 1, IF Len(s) < n THEN Len(s) ELSE n)

\* Lines 329-331: /^[0-9a-f]{40}$/.test(ref)
isCommitHash(r) == Len(r) = HashLen /\ \A k \in 1..Len(r) : r[k] \in LowerHex

\* ------------------------------------------------------------ universe
Dirs == {"d1", "d2"}
\* The path a workspaceOverride of the sub-repo at d points to.
Ov(d) == IF d = "d1" THEN "ov1" ELSE "ov2"
OvPaths == {Ov(d) : d \in Dirs}
Trees == Dirs \cup OvPaths
DirOf(t) == IF t \in {"d1", "ov1"} THEN "d1" ELSE "d2"

\* Relative paths of packages inside a sub-repo; "." is the root package.
SubPaths == {"a", "b"}
PkgPaths == {"."} \cup SubPaths

\* A package reference: a bare path (name = "") or {name, path}.
PkgRef(p, n) == [path |-> p, name |-> n]

Strategies == {"ignore", "install-only", "default"}

\* ------------------------------------------------------------ upstream
\* The history of every remote is linear, 1..MaxCommit.  The root commit
\* creates everything; later commits touch the root and "b" always and "a"
\* only when odd.
Touches(c, p) == p \in {".", "b"} \/ c % 2 = 1

\* Most recent commit up to c that touched p (git log -n 1 -- p on a full clone).
LastTouch(c, p) ==
  CHOOSE m \in 1..c : Touches(m, p) /\ \A n \in (m + 1)..c : ~Touches(n, p)

VARIABLES
  repos,          \* the configuration: Seq of Subrepo
  inWorkspace,    \* `pnpm root -w` printed a path
  remote,         \* remote[d]: tip of branch main (the default branch) on the remote of d
  tree,           \* tree[t]: [exists, head, shallow] of the working tree at path t
  dirLink,        \* dirLink[d]: repo.dir is a symlink to Ov(d)
  desc,           \* desc[d][p]: the package.json of package p in the sub-repo at d
  isWs,           \* isWs[d]: pnpm-workspace.yaml exists at the root of the sub-repo
  file,           \* .subrepo-install/metadata.json
  links,          \* symlinks in the host: set of <<from, to>>
  pc,             \* position in subrepoInstall; "idle" between runs
  i,              \* index of the sub-repo being processed
  j,              \* index of the package unit being processed
  metadata,       \* the in-memory Metadata object
  previousHeads,  \* copy of metadata.heads taken at the start of the run
  ref,            \* the local `ref`
  usingWorkspaceOverride,
  cmds,           \* commands and file operations issued by the current (or last) run
  outcome,        \* how the last run ended: "none", "running", "done", "aborted", "crashed"
  envLeft,        \* environment changes still allowed
  failLeft,       \* failures still allowed
  dirty,          \* the environment changed since the last run ended
  cleanRun,       \* the current (or last) run started right after a complete run, nothing changed
  fileAtStart,    \* the metadata file when the current (or last) run started
  retryOf,        \* units <<dir, path>> recorded by the run before, when that run was cut short
                  \* and nothing changed since; {} otherwise
  headBefore,     \* headBefore[d]: HEAD the run found in the existing clone at d (0: none)
  lastHead,       \* lastHead[d]: HEAD of the sub-repo at d when the last complete run ended (0: none)
  prevHead,       \* lastHead as it was when the current (or last) run started
  entries,        \* entries[p]: what is at path p below the working directory
  link,           \* the (from, to) pair ensureSymlink is called with
  calls,          \* calls of ensureSymlink made with that pair
  threw,          \* a call raised an error
  first,          \* entries as the first call left them
  installedAt,    \* installedAt[k]: package head at the last install of unit k that exited zero (0: none)
  builtAt,        \* builtAt[k]: package heads at which a build of unit k exited zero
  newHeads        \* the local `newHeads` of src/src/index.ts

vars == <<repos, inWorkspace, remote, tree, dirLink, desc, isWs, file, links,
          pc, i, j, metadata, previousHeads, ref, usingWorkspaceOverride,
          cmds, outcome, envLeft, failLeft, dirty, cleanRun, fileAtStart,
          retryOf, headBefore, lastHead, prevHead,
          entries, link, calls, threw, first, installedAt, builtAt, newHeads>>

envVars == <<repos, inWorkspace, remote, desc, isWs>>
runVars == <<pc, i, j, metadata, ref, usingWorkspaceOverride, outcome>>
fsVars == <<entries, link, calls, threw, first>>
histVars == <<installedAt, builtAt>>

\* ------------------------------------------------------------ metadata.heads
\* heads is an ordered list of [k, v] (JSON objects keep insertion order).
Key(base, p) == [repo |-> base, pkg |-> p]

HasKey(heads, k) == \E n \in 1..Len(heads) : heads[n].k = k

\* metadata.heads?.[k]; 0 stands for undefined.
Get(heads, k) ==
  IF HasKey(heads, k)
  THEN heads[CHOOSE n \in 1..Len(heads) : heads[n].k = k].v
  ELSE 0

\* metadata.heads[k] = v
Put(heads, k, v) ==
  IF HasKey(heads, k)
  THEN [n \in 1..Len(heads) |-> IF heads[n].k = k THEN [k |-> k, v |-> v] ELSE heads[n]]
  ELSE Append(heads, [k |-> k, v |-> v])

\* Every key a unit can have.
AllKeys == {Key(t, p) : t \in Trees, p \in PkgPaths}

Keys(heads) == {heads[n].k : n \in 1..Len(heads)}

\* delete metadata.heads[k] for every k with Drop(k)
RECURSIVE Without(_, _)
Without(heads, drop) ==
  IF heads = <<>> THEN <<>>
  ELSE IF Head(heads).k \in drop THEN Without(Tail(heads), drop)
       ELSE <<Head(heads)>> \o Without(Tail(heads), drop)

NoMetadata == [hasHeads |-> FALSE, heads |-> <<>>]

\* A variant that takes what the file once held, whatever became of the file.
readJsonFileUnchecked(f) == f.data

\* readJsonFile(metadataPath) ?? {}
readJsonFile(f) == IF f.st = "ok" THEN f.data ELSE NoMetadata

\* saveJsonFile(metadataPath, metadata)
saveJsonFile(m) == [st |-> "ok", data |-> m]

\* ------------------------------------------------------------ file system
\* The working tree `git -C repo.dir` operates on.
Phys(d) == IF dirLink[d] THEN Ov(d) ELSE d

\* existsSync(repo.dir)
DirExists(d) == tree[Phys(d)].exists

\* existsSync(path.join(path.dirname(root), pkgKey))
KeyExists(k) ==
  LET t == IF k.repo \in OvPaths THEN k.repo ELSE Phys(k.repo)
  IN  /\ tree[t].exists
      /\ k.pkg = "." \/ desc[DirOf(t)][k.pkg].st # "nodir"

\* git --no-pager -C dir log -n 1 --pretty=format:%H -- p.  In a clone made
\* or updated with --depth 1 the only commit is HEAD, and it has no parent.
PkgHead(d, p) ==
  LET t == tree[Phys(d)]
  IN  IF ~t.exists THEN 0
      ELSE IF t.shallow THEN t.head
      ELSE LastTouch(t.head, p)

\* ensureSymlink(from, to) in the host's node_modules
ensureSymlink(ls, from, to) == {l \in ls : l[1] # from} \cup {<<from, to>>}

\* ------------------------------------------------------------ commands
Cmd(op, d, p) == [op |-> op, dir |-> d, pkg |-> p]

Issued(op, d, p) == \E n \in 1..Len(cmds) : cmds[n] = Cmd(op, d, p)

Count(op, d, p) == Cardinality({n \in 1..Len(cmds) : cmds[n] = Cmd(op, d, p)})

\* ------------------------------------------------------------ configuration
Repo == repos[i]

\* repo.rootPackageStrategy ?? 'default'
StrategyOf(repo) ==
  IF repo.rootPackageStrategy = "unset" THEN "default" ELSE repo.rootPackageStrategy

\* rootPackageId, as a list for concat(rootPackageId, repo.packages)
RootPackageId(repo) ==
  IF StrategyOf(repo) # "ignore" /\ desc[repo.dir]["."].st \in {"bad", "ok"}
  THEN <<PkgRef(".", "")>>
  ELSE <<>>

UnitsOf(repo) == RootPackageId(repo) \o repo.packages

Unit == UnitsOf(Repo)[j]

\* repoKey
RepoKey(repo) == IF usingWorkspaceOverride THEN Ov(repo.dir) ELSE repo.dir

\* pkgKey
PkgKey(repo, p) == Key(RepoKey(repo), p)

\* ------------------------------------------------------------ git
NoTree == [exists |-> FALSE, head |-> 0, shallow |-> FALSE]

\* A variant in which the query prints nothing.
AbbrevRefNothing(d) == NoRef

\* git -C dir rev-parse --abbrev-ref HEAD: clones stay on the default branch.
AbbrevRef(d) == Main

\* git -C dir ls-remote origin ref: "<hash>\t<refname>" of the matching ref, or
\* nothing.  For an annotated tag the hash is that of the tag object.
LsRemote(d, r) ==
  IF r = Main THEN HashOf(remote[d]) \o <<"\t">> \o r
  ELSE IF r = Tag THEN TagObject \o <<"\t">> \o r
  ELSE <<>>

\* Whether the remote can serve `git fetch origin r`: a ref it has, or a full hash.
Resolvable(d, r) == r \in {Main, Tag} \/ \E c \in Commits : HashOf(c) = r

\* The commit FETCH_HEAD names after `git fetch --depth 1 origin r`.
FetchHead(d, r) ==
  IF r = Main THEN remote[d]
  ELSE IF r = Tag THEN TagCommit
  ELSE CHOOSE c \in Commits : HashOf(c) = r

\* A variant that never takes the override.
UseOverrideNever(repo) == FALSE

\* workspaceRoot && repo.workspaceOverride
UseOverride(repo) == inWorkspace /\ repo.workspaceOverride

\* ------------------------------------------------------------ gates
\* A variant of the install gate without its second condition.
InstallGateDepsOnly(repo, p, pkg) == pkg.dependencies \/ pkg.devDependencies

\* (pkg.dependencies || pkg.devDependencies) &&
\*   (pkgFileName === '.' ? !usingWorkspaceOverride : !isWorkspace(repo.dir))
InstallGate(repo, p, pkg) ==
  /\ pkg.dependencies \/ pkg.devDependencies
  /\ IF p = "." THEN ~usingWorkspaceOverride ELSE ~isWs[repo.dir]

\* A variant that enters the build section whatever the strategy.
BuildSectionAlways(repo, p) == TRUE

\* pkgFileName !== '.' || rootPackageStrategy !== 'install-only'
BuildSection(repo, p) == p # "." \/ StrategyOf(repo) # "install-only"

BuildGate(repo, p, pkg) == BuildSection(repo, p) /\ pkg.build

\* A variant that tracks the head of a unit only in a run in which it changed.
ShouldTrackHeadIfChanged(repo, p, pkg) ==
  /\ InstallGate(repo, p, pkg) \/ BuildGate(repo, p, pkg)
  /\ PkgHead(repo.dir, p) # Get(metadata.heads, PkgKey(repo, p))

\* A variant that tracks the head of every unit.
ShouldTrackHeadAlways(repo, p, pkg) == TRUE

\* shouldTrackHead, once both gates were evaluated
ShouldTrackHead(repo, p, pkg) == InstallGate(repo, p, pkg) \/ BuildGate(repo, p, pkg)

\* pkgHeadChanged
PkgHeadChanged(repo, p) == PkgHead(repo.dir, p) # Get(metadata.heads, PkgKey(repo, p))

\* pkgLocalName
PkgLocalName(unit, pkg) == IF unit.name = "" THEN pkg.name ELSE unit.name

\* ------------------------------------------------------------ ending a run
Stop(how) ==
  /\ pc' = "idle"
  /\ outcome' = how
  /\ i' = 0
  /\ j' = 0
  /\ ref' = NoRef
  /\ usingWorkspaceOverride' = FALSE
  /\ metadata' = NoMetadata

\* A variant in which the run goes on after a command exited non-zero.
NonZeroExitIgnored(next) == pc' = next /\ UNCHANGED <<outcome, i, j, ref, usingWorkspaceOverride, metadata>>

\* A command run without `exit: false` exits non-zero: the process exits too.
\* `next` is where the run would have continued.
NonZeroExit(next) == Stop("aborted")

\* The run issues command c, which exits non-zero.
Fails(c, next, forced) ==
  /\ forced \/ failLeft > 0
  /\ failLeft' = IF forced THEN failLeft ELSE failLeft - 1
  /\ cmds' = cmds \o <<c, Cmd("nonzero", c.dir, c.pkg)>>
  /\ NonZeroExit(next)

\* ------------------------------------------------------------ the run
StartRun ==
  /\ pc = "idle"
  /\ UNCHANGED fsVars
  /\ UNCHANGED newHeads
  /\ UNCHANGED histVars
  /\ metadata' = readJsonFile(file)
  /\ previousHeads' = metadata'.heads
  /\ i' = 1
  /\ j' = 0
  /\ pc' = "repo"
  /\ ref' = NoRef
  /\ usingWorkspaceOverride' = FALSE
  /\ cmds' = <<>>
  /\ outcome' = "running"
  /\ cleanRun' = (outcome = "done" /\ ~dirty)
  /\ dirty' = FALSE
  /\ fileAtStart' = file
  /\ retryOf' = IF outcome \in {"aborted", "crashed"} /\ ~dirty
                THEN {<<cmds[n].dir, cmds[n].pkg>> :
                        n \in {m \in 1..Len(cmds) : cmds[m].op = "record"}}
                ELSE {}
  /\ headBefore' = [d \in Dirs |-> 0]
  /\ prevHead' = lastHead
  /\ UNCHANGED <<envVars, tree, dirLink, file, links, envLeft, failLeft, lastHead>>

\* Lines 89-125: the workspace override, or the look at an existing clone, or the clone.
RepoBegin ==
  /\ pc = "repo"
  /\ UNCHANGED fsVars
  /\ UNCHANGED newHeads
  /\ UNCHANGED histVars
  /\ j' = 0
  /\ UNCHANGED <<envVars, file, links, i, metadata, previousHeads, outcome, envLeft,
                 dirty, cleanRun, fileAtStart, retryOf, lastHead, prevHead>>
  /\ LET repo == Repo
         d == repo.dir
     IN  /\ headBefore' = IF ~UseOverride(repo) /\ DirExists(d)
                          THEN [headBefore EXCEPT ![d] = tree[Phys(d)].head]
                          ELSE headBefore
         /\ IF UseOverride(repo)
            THEN /\ usingWorkspaceOverride' = TRUE
                 /\ dirLink' = [dirLink EXCEPT ![d] = TRUE]
                 /\ tree' = [tree EXCEPT ![d] = NoTree]
                 /\ ref' = repo.ref
                 /\ cmds' = Append(cmds, Cmd("link-dir", d, ""))
                 /\ pc' = "head"
                 /\ UNCHANGED failLeft
            ELSE IF DirExists(d)
            THEN LET r == IF repo.ref = NoRef THEN AbbrevRef(d) ELSE repo.ref
                     head == HashOf(tree[Phys(d)].head)
                     expectedHead == IF isCommitHash(r) THEN r
                                     ELSE Slice(LsRemote(d, r), HashLen)
                     shouldUpdate == head # expectedHead
                 IN  /\ usingWorkspaceOverride' = FALSE
                     /\ ref' = r
                     /\ cmds' = cmds
                          \o (IF repo.ref = NoRef THEN <<Cmd("abbrev-ref", d, "")>> ELSE <<>>)
                          \o <<Cmd("rev-parse", d, "")>>
                          \o (IF isCommitHash(r) THEN <<>> ELSE <<Cmd("ls-remote", d, "")>>)
                     /\ pc' = IF shouldUpdate /\ r # <<>> THEN "fetch" ELSE "head"
                     /\ UNCHANGED <<tree, dirLink, failLeft>>
            ELSE \/ /\ tree' = [tree EXCEPT ![d] =
                                  [exists |-> TRUE, head |-> remote[d], shallow |-> TRUE]]
                    /\ usingWorkspaceOverride' = FALSE
                    /\ ref' = repo.ref
                    /\ cmds' = Append(cmds, Cmd("clone", d, ""))
                    /\ pc' = IF repo.ref # NoRef THEN "fetch" ELSE "head"
                    /\ UNCHANGED <<dirLink, failLeft>>
                 \/ /\ Fails(Cmd("clone", d, ""), "head", FALSE)
                    /\ UNCHANGED <<tree, dirLink>>

\* Line 129: git fetch --depth 1 origin ref
RepoFetch ==
  /\ pc = "fetch"
  /\ UNCHANGED fsVars
  /\ UNCHANGED newHeads
  /\ UNCHANGED histVars
  /\ UNCHANGED <<envVars, tree, dirLink, file, links, previousHeads, envLeft,
                 dirty, cleanRun, fileAtStart, retryOf, headBefore, lastHead, prevHead>>
  /\ LET d == Repo.dir
     IN  \/ /\ Resolvable(d, ref)
            /\ cmds' = Append(cmds, Cmd("fetch", d, ""))
            /\ pc' = "reset"
            /\ UNCHANGED <<i, j, metadata, ref, usingWorkspaceOverride, outcome, failLeft>>
         \/ Fails(Cmd("fetch", d, ""), "reset", ~Resolvable(d, ref))

\* Line 133: git reset --hard FETCH_HEAD.  The commit fetched with --depth 1 has
\* no parent in the clone, also when the clone had its history before.
RepoReset ==
  /\ pc = "reset"
  /\ UNCHANGED fsVars
  /\ UNCHANGED newHeads
  /\ UNCHANGED histVars
  /\ UNCHANGED <<envVars, dirLink, file, links, previousHeads, envLeft,
                 dirty, cleanRun, fileAtStart, retryOf, headBefore, lastHead, prevHead>>
  /\ LET d == Repo.dir
         t == Phys(d)
     IN  \/ /\ tree' = [tree EXCEPT ![t] =
                         [exists |-> TRUE, head |-> FetchHead(d, ref), shallow |-> TRUE]]
            /\ cmds' = Append(cmds, Cmd("reset", d, ""))
            /\ pc' = "head"
            /\ UNCHANGED <<i, j, metadata, ref, usingWorkspaceOverride, outcome, failLeft>>
         \/ /\ Fails(Cmd("reset", d, ""), "head", FALSE)
            /\ UNCHANGED tree

\* Lines 138-157: rev-parse HEAD, repoKey, the list of package units.
RepoHead ==
  /\ pc = "head"
  /\ UNCHANGED fsVars
  /\ UNCHANGED newHeads
  /\ UNCHANGED histVars
  /\ cmds' = Append(cmds, Cmd("head", Repo.dir, ""))
  /\ IF UnitsOf(Repo) = <<>>
     THEN pc' = "links" /\ j' = 0
     ELSE pc' = "install" /\ j' = 1
  /\ UNCHANGED <<envVars, tree, dirLink, file, links, i, metadata, previousHeads, ref,
                 usingWorkspaceOverride, outcome, envLeft, failLeft,
                 dirty, cleanRun, fileAtStart, retryOf, headBefore, lastHead, prevHead>>

\* A variant in which the synchronisation phase is entered again after the last unit.
NextUnitThenHead ==
  IF j < Len(UnitsOf(Repo))
  THEN pc' = "install" /\ j' = j + 1
  ELSE pc' = "head" /\ j' = 0

\* The loop at line 157 moves to its next package unit, or ends.
NextUnit ==
  IF j < Len(UnitsOf(Repo))
  THEN pc' = "install" /\ j' = j + 1
  ELSE pc' = "links" /\ j' = 0

\* A variant in which the run ends at a unit whose descriptor cannot be read.
SkipUnitStops == Stop("aborted")

\* Lines 162-168: warn and `continue`.
SkipUnit ==
  /\ NextUnit
  /\ UNCHANGED <<i, metadata, ref, usingWorkspaceOverride, outcome>>

\* Lines 158-204: read the descriptor, the package head, the install gate.
PkgInstall ==
  /\ pc = "install"
  /\ UNCHANGED fsVars
  /\ UNCHANGED newHeads
  /\ UNCHANGED <<envVars, tree, dirLink, file, links, previousHeads, envLeft,
                 dirty, cleanRun, fileAtStart, retryOf, headBefore, lastHead, prevHead>>
  /\ LET repo == Repo
         d == repo.dir
         p == Unit.path
         pkg == desc[d][p]
         log == Append(cmds, Cmd("log", d, p))
     IN  IF pkg.st # "ok"
         THEN /\ cmds' = Append(cmds, Cmd("warn", d, p))
              /\ SkipUnit
              /\ UNCHANGED <<failLeft, histVars>>
         ELSE IF InstallGate(repo, p, pkg) /\ PkgHeadChanged(repo, p)
         THEN \/ /\ cmds' = Append(log, Cmd("install", d, p))
                 /\ installedAt' = [installedAt EXCEPT ![PkgKey(repo, p)] = PkgHead(d, p)]
                 /\ pc' = "build"
                 /\ UNCHANGED <<i, j, metadata, ref, usingWorkspaceOverride, outcome,
                                failLeft, builtAt>>
              \/ /\ failLeft > 0
                 /\ failLeft' = failLeft - 1
                 /\ cmds' = log \o <<Cmd("install", d, p), Cmd("nonzero", d, p)>>
                 /\ NonZeroExit("build")
                 /\ UNCHANGED histVars
         ELSE /\ cmds' = log
              /\ pc' = "build"
              /\ UNCHANGED <<i, j, metadata, ref, usingWorkspaceOverride, outcome,
                             failLeft, histVars>>

\* Lines 206-219: the build gate and the link into the host's node_modules.
PkgBuild ==
  /\ pc = "build"
  /\ UNCHANGED fsVars
  /\ UNCHANGED newHeads
  /\ UNCHANGED <<envVars, tree, dirLink, file, previousHeads, envLeft,
                 dirty, cleanRun, fileAtStart, retryOf, headBefore, lastHead, prevHead>>
  /\ UNCHANGED installedAt
  /\ LET repo == Repo
         d == repo.dir
         p == Unit.path
         pkg == desc[d][p]
         name == PkgLocalName(Unit, pkg)
         linked == IF name # "" THEN <<Cmd("link", d, p)>> ELSE <<>>
         built == IF pkg.build /\ PkgHeadChanged(repo, p)
                  THEN <<Cmd("build", d, p)>> ELSE <<>>
     IN  IF BuildSection(repo, p)
         THEN \/ /\ cmds' = cmds \o built \o linked
                 /\ builtAt' = IF built # <<>>
                               THEN [builtAt EXCEPT ![PkgKey(repo, p)] = @ \cup {PkgHead(d, p)}]
                               ELSE builtAt
                 /\ links' = IF name # ""
                             THEN ensureSymlink(links, name, <<d, p>>)
                             ELSE links
                 /\ pc' = "record"
                 /\ UNCHANGED <<i, j, metadata, ref, usingWorkspaceOverride, outcome, failLeft>>
              \/ /\ built # <<>>
                 /\ Fails(Cmd("build", d, p), "record", FALSE)
                 /\ UNCHANGED <<links, builtAt>>
         ELSE /\ pc' = "record"
              /\ UNCHANGED <<cmds, links, i, j, metadata, ref, usingWorkspaceOverride,
                             outcome, failLeft, builtAt>>

\* A variant that leaves the file alone until the end of the run.
SavedAfterRecordNever(m, changed) == file

\* Lines 225-229: the file after the head of a unit was recorded.
SavedAfterRecord(m, changed) == IF changed THEN saveJsonFile(m) ELSE file

\* Lines 221-230: record the package head, save when it changed.
PkgRecord ==
  /\ pc = "record"
  /\ UNCHANGED fsVars
  /\ UNCHANGED newHeads
  /\ UNCHANGED histVars
  /\ UNCHANGED <<envVars, tree, dirLink, links, previousHeads, i, ref,
                 usingWorkspaceOverride, outcome, envLeft, failLeft,
                 dirty, cleanRun, fileAtStart, retryOf, headBefore, lastHead, prevHead>>
  /\ LET repo == Repo
         d == repo.dir
         p == Unit.path
         pkg == desc[d][p]
     IN  IF ShouldTrackHead(repo, p, pkg)
         THEN /\ metadata' = [hasHeads |-> TRUE,
                              heads |-> Put(metadata.heads, PkgKey(repo, p), PkgHead(d, p))]
              /\ file' = SavedAfterRecord(metadata', PkgHeadChanged(repo, p))
              /\ cmds' = cmds \o <<Cmd("record", d, p)>>
                           \o (IF file' # file THEN <<Cmd("save", d, p)>> ELSE <<>>)
         ELSE UNCHANGED <<metadata, file, cmds>>
  /\ NextUnit

\* The package.json of repo.dir/node_modules/name: "x" is installed and has a
\* `bin` string, "y" is not installed.
InheritTarget(name) ==
  IF name = "x" THEN [st |-> "ok", name |-> "x", bin |-> "string"]
  ELSE [st |-> "nofile", name |-> "", bin |-> "none"]

\* The links one name of inheritDependencies creates (lines 234-261).
InheritLinks(ls, name) ==
  LET targetPkg == InheritTarget(name)
      withDep == ensureSymlink(ls, name, <<"node_modules", name>>)
  IN  IF targetPkg.st # "ok" THEN ls
      ELSE IF targetPkg.bin = "string" /\ targetPkg.name # ""
      THEN ensureSymlink(withDep, ".bin/" \o targetPkg.name, <<"bin", name>>)
      ELSE withDep

RECURSIVE InheritAll(_, _)
InheritAll(ls, names) ==
  IF names = <<>> THEN ls
  ELSE InheritAll(InheritLinks(ls, Head(names)), Tail(names))

RECURSIVE LinkAll(_, _, _)
LinkAll(ls, d, files) ==
  IF files = <<>> THEN ls
  ELSE LinkAll(ensureSymlink(ls, Head(files), <<d, Head(files)>>), d, Tail(files))

\* Lines 233-267: inherited dependencies and extra file links; then the next sub-repo.
RepoLinks ==
  /\ pc = "links"
  /\ UNCHANGED fsVars
  /\ UNCHANGED newHeads
  /\ UNCHANGED histVars
  /\ LET repo == Repo
         d == repo.dir
     IN  /\ links' = LinkAll(InheritAll(links, repo.inheritDependencies), d, repo.linkFiles)
         /\ cmds' = cmds
              \o [n \in 1..Len(repo.inheritDependencies) |->
                    Cmd(IF InheritTarget(repo.inheritDependencies[n]).st = "ok"
                        THEN "inherit" ELSE "warn", d, repo.inheritDependencies[n])]
              \o [n \in 1..Len(repo.linkFiles) |-> Cmd("link-file", d, repo.linkFiles[n])]
  /\ IF i < Len(repos)
     THEN pc' = "repo" /\ i' = i + 1
     ELSE pc' = "finish" /\ i' = 0
  /\ ref' = NoRef
  /\ usingWorkspaceOverride' = FALSE
  /\ UNCHANGED <<envVars, tree, dirLink, file, j, metadata, previousHeads, outcome,
                 envLeft, failLeft, dirty, cleanRun, fileAtStart, retryOf, headBefore, lastHead, prevHead>>

\* A variant that deletes no key.
PrunedNone(prev) == {}

\* The keys the loop at lines 271-279 deletes.
Pruned(prev) == {k \in Keys(prev) : ~KeyExists(k)}

\* Lines 269-281: drop the keys of packages that are gone, save, return.
Finish ==
  /\ pc = "finish"
  /\ UNCHANGED fsVars
  /\ UNCHANGED newHeads
  /\ UNCHANGED histVars
  /\ IF metadata.hasHeads
     THEN /\ file' = saveJsonFile([hasHeads |-> TRUE,
                                   heads |-> Without(metadata.heads, Pruned(previousHeads))])
          /\ cmds' = Append(cmds, Cmd("save", "", ""))
     ELSE UNCHANGED <<file, cmds>>
  /\ Stop("done")
  /\ lastHead' = [d \in Dirs |-> IF DirExists(d) THEN tree[Phys(d)].head ELSE 0]
  /\ UNCHANGED <<envVars, tree, dirLink, links, previousHeads, envLeft, failLeft,
                 dirty, cleanRun, fileAtStart, retryOf, headBefore, prevHead>>

\* The process is interrupted (killed) between two steps.
Crash ==
  /\ pc \notin {"idle"}
  /\ UNCHANGED fsVars
  /\ UNCHANGED newHeads
  /\ UNCHANGED histVars
  /\ failLeft > 0
  /\ failLeft' = failLeft - 1
  /\ Stop("crashed")
  /\ UNCHANGED <<envVars, tree, dirLink, file, links, previousHeads, cmds, envLeft,
                 dirty, cleanRun, fileAtStart, retryOf, headBefore, lastHead, prevHead>>

\* ------------------------------------------------------------ environment
EnvStep ==
  /\ pc = "idle"
  /\ UNCHANGED fsVars
  /\ UNCHANGED newHeads
  /\ UNCHANGED histVars
  /\ envLeft > 0
  /\ envLeft' = envLeft - 1
  /\ dirty' = TRUE
  /\ UNCHANGED <<pc, i, j, metadata, previousHeads, ref, usingWorkspaceOverride, cmds,
                 outcome, failLeft, cleanRun, fileAtStart, retryOf, headBefore,
                 lastHead, prevHead, inWorkspace, isWs, dirLink, file, links>>

\* Somebody pushes to (or force-pushes) the branch on the remote.
RemoteMove ==
  /\ EnvStep
  /\ \E d \in Dirs, c \in Commits :
       /\ c # remote[d]
       /\ remote' = [remote EXCEPT ![d] = c]
  /\ UNCHANGED <<repos, tree, desc>>

\* Somebody commits in (or pulls into) the workspace's own copy of the sub-repo.
OverrideCommit ==
  /\ EnvStep
  /\ \E d \in Dirs, c \in Commits :
       /\ c # tree[Ov(d)].head
       /\ tree' = [tree EXCEPT ![Ov(d)].head = c]
  /\ UNCHANGED <<repos, remote, desc>>

PackageLists == {<<>>, <<PkgRef("a", "")>>, <<PkgRef("b", "")>>,
                 <<PkgRef("a", ""), PkgRef("b", "")>>, <<PkgRef("a", "alias")>>}

\* The host's developer edits the configuration passed to subrepoInstall.
EditPackages ==
  /\ EnvStep
  /\ \E ps \in PackageLists :
       /\ ps # repos[1].packages
       /\ repos' = [repos EXCEPT ![1].packages = ps]
  /\ UNCHANGED <<remote, tree, desc>>

EditStrategy ==
  /\ EnvStep
  /\ \E st \in Strategies \cup {"unset"} :
       /\ st # repos[1].rootPackageStrategy
       /\ repos' = [repos EXCEPT ![1].rootPackageStrategy = st]
  /\ UNCHANGED <<remote, tree, desc>>

\* The metadata file is deleted, or damaged so that it does not parse; `data`
\* keeps what it held before.
CorruptFile ==
  /\ pc = "idle"
  /\ UNCHANGED fsVars
  /\ UNCHANGED newHeads
  /\ UNCHANGED histVars
  /\ envLeft > 0
  /\ envLeft' = envLeft - 1
  /\ dirty' = TRUE
  /\ file.st = "ok"
  /\ \E st \in {"absent", "malformed"} : file' = [file EXCEPT !.st = st]
  /\ UNCHANGED <<envVars, tree, dirLink, links, runVars, previousHeads, cmds, failLeft,
                 cleanRun, fileAtStart, retryOf, headBefore, lastHead, prevHead>>

Descriptor(st, name, deps, dev, build) ==
  [st |-> st, name |-> name, dependencies |-> deps, devDependencies |-> dev, build |-> build]

\* A package.json that cannot be read or parsed; st says why.
NoDescriptor(st) == Descriptor(st, "", FALSE, FALSE, FALSE)

Descriptors(p) ==
  {Descriptor("ok", p, deps, FALSE, build) : deps \in BOOLEAN, build \in BOOLEAN}
    \cup {Descriptor("ok", p, FALSE, TRUE, FALSE), NoDescriptor("bad")}
    \cup (IF p = "." THEN {NoDescriptor("nofile")} ELSE {NoDescriptor("nodir")})

\* The content of the sub-repo changes: a package.json is edited, a package is removed.
EditDescriptor ==
  /\ EnvStep
  /\ \E p \in PkgPaths :
     \E n \in Descriptors(p) :
       /\ n # desc["d1"][p]
       /\ desc' = [desc EXCEPT !["d1"][p] = n]
  /\ UNCHANGED <<repos, remote, tree>>

\* ------------------------------------------------------------ the file system under ensureSymlink
\* Paths are relative to the working directory, as sequences of names; <<>> is
\* the working directory itself.
Names == {"a", "b"}
Paths == UNION {[1..n -> Names] : n \in 0..MaxDepth}
Entries == Paths \ {<<>>}

\* path.dirname
Dirname(p) == SubSeq(p, 1, Len(p) - 1)

IsPrefix(p, q) == Len(p) <= Len(q) /\ SubSeq(q, 1, Len(p)) = p

\* The text of a relative link: `up` times "..", then the names of `down`.
Text(up, down) == [up |-> up, down |-> down]
NoText == Text(0, <<>>)

None == [kind |-> "none", text |-> NoText]
File == [kind |-> "file", text |-> NoText]
Dir == [kind |-> "dir", text |-> NoText]
Link(text) == [kind |-> "link", text |-> text]

\* Length of the longest common prefix of p and q.
RECURSIVE Common(_, _)
Common(p, q) ==
  IF p # <<>> /\ q # <<>> /\ Head(p) = Head(q) THEN 1 + Common(Tail(p), Tail(q)) ELSE 0

\* path.relative(base, to): "" when both are the same path.
Relative(base, to) ==
  LET k == Common(base, to)
  IN  Text(Len(base) - k, SubSeq(to, k + 1, Len(to)))

\* The path a link text names when it is read in directory dir.
Resolve(dir, text) ==
  SubSeq(dir, 1, IF text.up > Len(dir) THEN 0 ELSE Len(dir) - text.up) \o text.down

\* What a path walk gives when it follows more links than the system allows (ELOOP).
Loop == <<"*">>

\* The path without links that `rest`, read in the directory `cur`, leads to.
RECURSIVE Walk(_, _, _, _)
Walk(fs, cur, rest, hops) ==
  IF rest = <<>> THEN cur
  ELSE LET q == Append(cur, Head(rest))
       IN  IF q \in DOMAIN fs /\ fs[q].kind = "link"
           THEN IF hops = 0 THEN Loop
                ELSE Walk(fs, <<>>, Resolve(cur, fs[q].text) \o Tail(rest), hops - 1)
           ELSE Walk(fs, q, Tail(rest), hops)

RealPath(fs, p) == Walk(fs, <<>>, p, MaxHops)

\* rmSync(from, { recursive: true, force: true })
rmSync(fs, from) == [p \in DOMAIN fs |-> IF IsPrefix(from, p) THEN None ELSE fs[p]]

\* mkdirSync(dir, { recursive: true }) fails when a file is in the way.
MkdirFails(fs, dir) == \E p \in DOMAIN fs : IsPrefix(p, dir) /\ fs[p].kind = "file"

mkdirSync(fs, dir) ==
  [p \in DOMAIN fs |-> IF IsPrefix(p, dir) /\ fs[p].kind = "none" THEN Dir ELSE fs[p]]

\* symlinkSync(target, path) fails when the target is the empty string (ENOENT).
SymlinkFails(text) == text = NoText

symlinkSync(fs, text, from) == [fs EXCEPT ![from] = Link(text)]

\* Lines 315-322: the entries after ensureSymlink(from, to), and whether it raised.
ensureSymlinkIn(fs, from, to) ==
  LET removed == rmSync(fs, from)
      text == Relative(Dirname(from), to)
  IN  IF MkdirFails(removed, Dirname(from))
      THEN [fs |-> removed, error |-> TRUE]
      ELSE IF SymlinkFails(text)
      THEN [fs |-> mkdirSync(removed, Dirname(from)), error |-> TRUE]
      ELSE [fs |-> symlinkSync(mkdirSync(removed, Dirname(from)), text, from),
            error |-> FALSE]

\* One call of ensureSymlink with the pair.
EnsureSymlink ==
  /\ pc = "ensureSymlink"
  /\ calls < MaxCalls
  /\ ~threw
  /\ LET r == ensureSymlinkIn(entries, link.from, link.to)
     IN  /\ entries' = r.fs
         /\ threw' = r.error
         /\ first' = IF calls = 0 THEN r.fs ELSE first
  /\ calls' = calls + 1
  /\ UNCHANGED histVars
  /\ UNCHANGED newHeads
  /\ UNCHANGED <<envVars, tree, dirLink, file, links, runVars, previousHeads, cmds,
                 envLeft, failLeft, dirty, cleanRun, fileAtStart, retryOf, headBefore,
                 lastHead, prevHead, link>>

\* ------------------------------------------------------------ specification
Subrepo(d, r, ps, st, ov, inh, lf) ==
  [dir |-> d, ref |-> r, packages |-> ps, rootPackageStrategy |-> st,
   workspaceOverride |-> ov, inheritDependencies |-> inh, linkFiles |-> lf]

RefChoices == {NoRef, Main, Tag, ShortHash} \cup {HashOf(c) : c \in Commits}

\* The second sub-repo of the configuration: no ref, one package, root ignored.
Second == Subrepo("d2", NoRef, <<PkgRef("a", "")>>, "ignore", FALSE, <<>>, <<>>)

Full(p) == Descriptor("ok", p, TRUE, FALSE, TRUE)

\* What does not vary between the initial states.
InitRest ==
  /\ dirLink = [d \in Dirs |-> FALSE]
  /\ file = [st |-> "absent", data |-> NoMetadata]
  /\ links = {}
  /\ pc = "idle"
  /\ i = 0
  /\ j = 0
  /\ metadata = NoMetadata
  /\ previousHeads = <<>>
  /\ ref = NoRef
  /\ usingWorkspaceOverride = FALSE
  /\ cmds = <<>>
  /\ outcome = "none"
  /\ dirty = FALSE
  /\ cleanRun = FALSE
  /\ fileAtStart = file
  /\ retryOf = {}
  /\ headBefore = [d \in Dirs |-> 0]
  /\ lastHead = [d \in Dirs |-> 0]
  /\ prevHead = [d \in Dirs |-> 0]

\* Nothing was installed or built before the first run.
InitHist ==
  /\ installedAt = [k \in AllKeys |-> 0]
  /\ builtAt = [k \in AllKeys |-> {}]

\* No call of ensureSymlink on its own.
InitNoFs ==
  /\ entries = [p \in Entries |-> None]
  /\ link = [from |-> <<"a">>, to |-> <<"b">>]
  /\ calls = 0
  /\ threw = FALSE
  /\ first = entries

\* repo.dir of the first sub-repo: absent, or a full clone somebody made, at commit c.
InitTrees(pre, c) ==
  tree = [t \in Trees |->
            IF t \in OvPaths THEN [exists |-> TRUE, head |-> 1, shallow |-> FALSE]
            ELSE IF pre /\ t = "d1" THEN [exists |-> TRUE, head |-> c, shallow |-> FALSE]
            ELSE NoTree]

\* workspaceOverride and the workspace: not set, set and honoured, set and not honoured.
OverrideCases == {<<FALSE, FALSE>>, <<TRUE, TRUE>>, <<TRUE, FALSE>>}

\* Initial states that vary what the synchronisation of a sub-repo depends on.
InitSync ==
  /\ \E r1 \in RefChoices, ow \in OverrideCases :
       /\ repos = << Subrepo("d1", r1, <<PkgRef("a", ""), PkgRef("b", "")>>, "unset",
                             ow[1], <<"x", "y">>, <<"f">>), Second >>
       /\ inWorkspace = ow[2]
  /\ \E c \in Commits : remote = [d \in Dirs |-> IF d = "d1" THEN c ELSE 1]
  /\ \E pre \in BOOLEAN, c \in Commits : InitTrees(pre, c)
  /\ desc = [d \in Dirs |-> [p \in PkgPaths |-> Full(p)]]
  /\ isWs = [d \in Dirs |-> FALSE]

\* Initial states that vary what the processing of a package unit depends on.
InitUnits ==
  /\ \E st \in Strategies \cup {"unset"}, ow \in OverrideCases :
       /\ repos = << Subrepo("d1", Main, <<PkgRef("a", "alias"), PkgRef("b", "")>>, st,
                             ow[1], <<>>, <<>>), Second >>
       /\ inWorkspace = ow[2]
  /\ remote = [d \in Dirs |-> 1]
  /\ InitTrees(FALSE, 1)
  /\ \E root \in Descriptors("."),
        a \in {Full("a"), Descriptor("ok", "", FALSE, FALSE, FALSE),
               Descriptor("ok", "a", FALSE, TRUE, FALSE), NoDescriptor("bad")} :
       desc = [d \in Dirs |-> [p \in PkgPaths |->
                 IF d = "d2" THEN Full(p)
                 ELSE IF p = "." THEN root
                 ELSE IF p = "a" THEN a
                 ELSE Descriptor("ok", p, FALSE, FALSE, TRUE)]]
  /\ \E w \in BOOLEAN : isWs = [d \in Dirs |-> d = "d1" /\ w]

Init ==
  /\ InitSync \/ InitUnits
  /\ envLeft = 0
  /\ failLeft = MaxFail
  /\ InitRest
  /\ InitNoFs
  /\ InitHist
  /\ newHeads = <<>>

\* Initial states of the behaviours in which the environment changes between runs.
InitEnv ==
  /\ \E ow \in {<<FALSE, FALSE>>, <<TRUE, TRUE>>} :
       /\ repos = << Subrepo("d1", Main, <<PkgRef("a", ""), PkgRef("b", "")>>, "unset",
                             ow[1], <<>>, <<>>), Second >>
       /\ inWorkspace = ow[2]
  /\ remote = [d \in Dirs |-> 1]
  /\ \E pre \in BOOLEAN : InitTrees(pre, 1)
  /\ desc = [d \in Dirs |-> [p \in PkgPaths |-> Full(p)]]
  /\ isWs = [d \in Dirs |-> FALSE]
  /\ envLeft = MaxEnv
  /\ failLeft = 0
  /\ InitRest
  /\ InitNoFs
  /\ InitHist
  /\ newHeads = <<>>

\* The entries before the first call: the directory of `from` is there or not.
Bare(from, parents) ==
  [p \in Entries |-> IF parents /\ IsPrefix(p, Dirname(from)) THEN Dir ELSE None]

\* ... and at `from` is a file, a directory (empty, or with a file in it) or a link.
Stale(from, e, child) ==
  [p \in Entries |->
     IF p = from THEN e
     ELSE IF child /\ e = Dir /\ Dirname(p) = from THEN File
     ELSE Bare(from, TRUE)[p]]

\* The link texts that can be at `from`: to any path other than `from` or below it.
Texts(from) ==
  {Relative(Dirname(from), t) : t \in {q \in Paths : ~IsPrefix(from, q)}} \ {NoText}

PriorStates(from) ==
  {Bare(from, ps) : ps \in BOOLEAN}
    \cup {Stale(from, e, ch) : e \in {File, Dir}, ch \in BOOLEAN}
    \cup {Stale(from, Link(t), FALSE) : t \in Texts(from)}

\* Initial states of the calls of ensureSymlink on its own: every pair (from, to)
\* with `to` not `from` or below it, and every prior state of the entry at `from`.
InitLink ==
  /\ \E from \in Entries, to \in Paths :
       /\ ~IsPrefix(from, to)
       /\ link = [from |-> from, to |-> to]
       /\ entries \in PriorStates(from)
  /\ calls = 0
  /\ threw = FALSE
  /\ first = entries
  /\ InitHist
  /\ newHeads = <<>>
  /\ pc = "ensureSymlink"
  /\ repos = <<>>
  /\ inWorkspace = FALSE
  /\ remote = [d \in Dirs |-> 1]
  /\ tree = [t \in Trees |-> NoTree]
  /\ desc = [d \in Dirs |-> [p \in PkgPaths |-> NoDescriptor("nodir")]]
  /\ isWs = [d \in Dirs |-> FALSE]
  /\ dirLink = [d \in Dirs |-> FALSE]
  /\ file = [st |-> "absent", data |-> NoMetadata]
  /\ links = {}
  /\ i = 0
  /\ j = 0
  /\ metadata = NoMetadata
  /\ previousHeads = <<>>
  /\ ref = NoRef
  /\ usingWorkspaceOverride = FALSE
  /\ cmds = <<>>
  /\ outcome = "none"
  /\ envLeft = 0
  /\ failLeft = 0
  /\ dirty = FALSE
  /\ cleanRun = FALSE
  /\ fileAtStart = file
  /\ retryOf = {}
  /\ headBefore = [d \in Dirs |-> 0]
  /\ lastHead = [d \in Dirs |-> 0]
  /\ prevHead = [d \in Dirs |-> 0]

\* Initial states of the behaviours in which commands fail and the remote moves
\* between runs: one sub-repo that follows a branch, its root and one package.
InitBack ==
  /\ \E st \in {"unset", "ignore"} :
       repos = << Subrepo("d1", Main, <<PkgRef("a", "")>>, st, FALSE, <<>>, <<>>) >>
  /\ inWorkspace = FALSE
  /\ remote = [d \in Dirs |-> 1]
  /\ InitTrees(FALSE, 1)
  /\ desc = [d \in Dirs |-> [p \in PkgPaths |-> Full(p)]]
  /\ isWs = [d \in Dirs |-> FALSE]
  /\ envLeft = MaxEnv
  /\ failLeft = MaxFail
  /\ InitRest
  /\ InitNoFs
  /\ InitHist
  /\ newHeads = <<>>

\* The steps of a run.
Steps ==
  \/ StartRun
  \/ RepoBegin
  \/ RepoFetch
  \/ RepoReset
  \/ RepoHead
  \/ PkgInstall
  \/ PkgBuild
  \/ PkgRecord
  \/ RepoLinks
  \/ Finish

Next ==
  \/ Steps
  \/ Crash

NextEnv ==
  \/ Steps
  \/ RemoteMove
  \/ OverrideCommit
  \/ EditPackages
  \/ EditStrategy
  \/ EditDescriptor
  \/ CorruptFile

\* Runs of subrepoInstall, one after the other, in an environment that stays as
\* it is; commands may exit non-zero and the process may be interrupted.
Spec == Init /\ [][Next]_vars

\* Runs of subrepoInstall that complete, with changes of the environment between them.
SpecEnv == InitEnv /\ [][NextEnv]_vars

NextBack ==
  \/ Steps
  \/ RemoteMove

\* Runs of subrepoInstall in which commands may exit non-zero, with moves of the
\* remote branch, forward or back, between them.
SpecBack == InitBack /\ [][NextBack]_vars

\* Calls of ensureSymlink with one pair, from every prior state of the entry.
NextLink == EnsureSymlink

SpecLink == InitLink /\ [][NextLink]_vars

\* ------------------------------------------------ the variant src/src/index.ts
\* The metadata file of this variant, as the JSON object it holds: the `heads`
\* field, if the object has one, and the key-value pairs at its top level.
EmptyObject == [hasHeads |-> FALSE, heads |-> <<>>, top |-> <<>>]

\* Line 83: readJsonFile<Metadata>(metadataPath) ?? {}
readMetadata(f) == IF f.st = "ok" THEN f.data ELSE EmptyObject

\* {...a, ...b}
RECURSIVE Spread(_, _)
Spread(a, b) ==
  IF b = <<>> THEN a ELSE Spread(Put(a, Head(b).k, Head(b).v), Tail(b))

\* Lines 191-194: saveJsonFile(metadataPath, {...oldHeads, ...newHeads})
SavedFlat(oldHeads, nh) ==
  [st |-> "ok", data |-> [hasHeads |-> FALSE, heads |-> <<>>, top |-> Spread(oldHeads, nh)]]

\* Lines 202-205: saveJsonFile(metadataPath, {...metadata, heads: newHeads})
SavedWithHeads(m, nh) ==
  [st |-> "ok", data |-> [hasHeads |-> TRUE, heads |-> nh, top |-> m.top]]

\* What no step of this variant touches.
OldFrame ==
  /\ UNCHANGED fsVars
  /\ UNCHANGED histVars
  /\ UNCHANGED <<envVars, envLeft, cleanRun, fileAtStart, retryOf, headBefore,
                 lastHead, prevHead>>

\* The process ends: the function returned, or a command exited non-zero.
OldStop(how) == Stop(how) /\ newHeads' = <<>>

\* Line 88: the loop moves to its next sub-repo, or the function returns.
OldNextRepo ==
  IF i < Len(repos)
  THEN /\ pc' = "old-repo"
       /\ i' = i + 1
       /\ j' = 0
       /\ ref' = NoRef
       /\ UNCHANGED <<outcome, metadata, usingWorkspaceOverride, newHeads>>
  ELSE OldStop("done")

\* Lines 69-86: load the metadata, keep its heads, start with no new heads.
OldStart ==
  /\ pc = "idle"
  /\ OldFrame
  /\ metadata' = readMetadata(file)
  /\ previousHeads' = metadata'.heads
  /\ newHeads' = <<>>
  /\ i' = 1
  /\ j' = 0
  /\ pc' = "old-repo"
  /\ ref' = NoRef
  /\ cmds' = <<>>
  /\ outcome' = "running"
  /\ dirty' = FALSE
  /\ UNCHANGED <<tree, dirLink, file, links, usingWorkspaceOverride, failLeft>>

\* Lines 89-123: the workspace override (and on to the next sub-repo), or the
\* look at an existing clone, or the clone.
OldRepoBegin ==
  /\ pc = "old-repo"
  /\ OldFrame
  /\ UNCHANGED <<file, links, previousHeads, dirty>>
  /\ LET repo == Repo
         d == repo.dir
     IN  IF UseOverride(repo)
         THEN /\ dirLink' = [dirLink EXCEPT ![d] = TRUE]
              /\ tree' = [tree EXCEPT ![d] = NoTree]
              /\ cmds' = Append(cmds, Cmd("link-dir", d, ""))
              /\ OldNextRepo
              /\ UNCHANGED failLeft
         ELSE IF DirExists(d)
         THEN LET r == IF repo.ref = NoRef THEN AbbrevRef(d) ELSE repo.ref
                  head == HashOf(tree[Phys(d)].head)
                  expectedHead == IF isCommitHash(r) THEN r
                                  ELSE Slice(LsRemote(d, r), HashLen)
                  shouldUpdate == head # expectedHead
              IN  /\ ref' = r
                  /\ cmds' = cmds
                       \o (IF repo.ref = NoRef THEN <<Cmd("abbrev-ref", d, "")>> ELSE <<>>)
                       \o <<Cmd("rev-parse", d, "")>>
                       \o (IF isCommitHash(r) THEN <<>> ELSE <<Cmd("ls-remote", d, "")>>)
                  /\ pc' = IF shouldUpdate /\ r # <<>> THEN "old-fetch" ELSE "old-head"
                  /\ UNCHANGED <<tree, dirLink, failLeft, i, j, metadata, outcome,
                                 usingWorkspaceOverride, newHeads>>
         ELSE \/ /\ tree' = [tree EXCEPT ![d] =
                               [exists |-> TRUE, head |-> remote[d], shallow |-> TRUE]]
                 /\ ref' = repo.ref
                 /\ cmds' = Append(cmds, Cmd("clone", d, ""))
                 /\ pc' = IF repo.ref # NoRef THEN "old-fetch" ELSE "old-head"
                 /\ UNCHANGED <<dirLink, failLeft, i, j, metadata, outcome,
                                usingWorkspaceOverride, newHeads>>
              \/ /\ Fails(Cmd("clone", d, ""), "old-head", FALSE)
                 /\ newHeads' = <<>>
                 /\ UNCHANGED <<tree, dirLink>>

\* Lines 125-131: git fetch --depth 1 origin ref, git reset --hard FETCH_HEAD
OldFetch ==
  /\ pc = "old-fetch"
  /\ OldFrame
  /\ UNCHANGED <<dirLink, file, links, previousHeads, dirty>>
  /\ LET d == Repo.dir
     IN  \/ /\ Resolvable(d, ref)
            /\ tree' = [tree EXCEPT ![Phys(d)] =
                         [exists |-> TRUE, head |-> FetchHead(d, ref), shallow |-> TRUE]]
            /\ cmds' = cmds \o <<Cmd("fetch", d, ""), Cmd("reset", d, "")>>
            /\ pc' = "old-head"
            /\ UNCHANGED <<i, j, metadata, ref, usingWorkspaceOverride, outcome, failLeft,
                           newHeads>>
         \/ /\ Fails(Cmd("fetch", d, ""), "old-head", ~Resolvable(d, ref))
            /\ newHeads' = <<>>
            /\ UNCHANGED tree

\* Lines 133-145: rev-parse HEAD, the list of package units.
OldHead ==
  /\ pc = "old-head"
  /\ OldFrame
  /\ cmds' = Append(cmds, Cmd("head", Repo.dir, ""))
  /\ IF UnitsOf(Repo) = <<>>
     THEN pc' = "old-save" /\ j' = 0
     ELSE pc' = "old-unit" /\ j' = 1
  /\ UNCHANGED <<tree, dirLink, file, links, i, metadata, previousHeads, ref,
                 usingWorkspaceOverride, outcome, failLeft, dirty, newHeads>>

\* Lines 146-199: one package unit: install, build, link, and the head of the
\* sub-repo put into newHeads, written to the file when it changed.
OldUnit ==
  /\ pc = "old-unit"
  /\ OldFrame
  /\ UNCHANGED <<tree, dirLink, previousHeads, dirty>>
  /\ LET repo == Repo
         d == repo.dir
         name == Unit.path
         packageDir == Key(d, name)
         head == tree[Phys(d)].head
         headChanged == head # Get(metadata.heads, packageDir)
         isRootPackage == name = "."
         installs == isRootPackage \/ ~isWs[d]
         section == ~isRootPackage \/ StrategyOf(repo) # "install-only"
         pkg == desc[d][name]
         builds == section /\ pkg.st = "ok" /\ pkg.build
         shouldTrackHead == installs \/ builds
         installed == IF installs /\ headChanged THEN <<Cmd("install", d, name)>> ELSE <<>>
         built == IF builds /\ headChanged THEN <<Cmd("build", d, name)>> ELSE <<>>
         named == section /\ pkg.st = "ok" /\ pkg.name # ""
         nh == IF shouldTrackHead THEN Put(newHeads, packageDir, head) ELSE newHeads
         saves == shouldTrackHead /\ headChanged
     IN  \/ /\ cmds' = cmds \o installed \o built
                 \o (IF named THEN <<Cmd("link", d, name)>> ELSE <<>>)
                 \o (IF shouldTrackHead THEN <<Cmd("record", d, name)>> ELSE <<>>)
                 \o (IF saves THEN <<Cmd("save", d, name)>> ELSE <<>>)
            /\ links' = IF named THEN ensureSymlink(links, d \o "/node_modules/" \o pkg.name, <<d, name>>)
                        ELSE links
            /\ newHeads' = nh
            /\ file' = IF saves THEN SavedFlat(previousHeads, nh) ELSE file
            /\ IF j < Len(UnitsOf(repo))
               THEN pc' = "old-unit" /\ j' = j + 1
               ELSE pc' = "old-save" /\ j' = 0
            /\ UNCHANGED <<i, metadata, ref, usingWorkspaceOverride, outcome, failLeft>>
         \/ /\ installed # <<>>
            /\ Fails(Cmd("install", d, name), "old-unit", FALSE)
            /\ newHeads' = <<>>
            /\ UNCHANGED <<file, links>>
         \/ /\ built # <<>>
            /\ failLeft > 0
            /\ failLeft' = failLeft - 1
            /\ cmds' = cmds \o installed \o <<Cmd("build", d, name), Cmd("nonzero", d, name)>>
            /\ OldStop("aborted")
            /\ UNCHANGED <<file, links>>

\* Lines 201-235: the file written with the new heads under `heads`, then the
\* inherited dependencies and the file links.
OldRepoEnd ==
  /\ pc = "old-save"
  /\ OldFrame
  /\ LET repo == Repo
         d == repo.dir
         inherited == SelectSeq(repo.inheritDependencies,
                                LAMBDA nm : InheritTarget(nm).st = "ok")
     IN  /\ file' = SavedWithHeads(metadata, newHeads)
         /\ links' = LinkAll(InheritAll(links, repo.inheritDependencies), d, repo.linkFiles)
         /\ cmds' = cmds \o <<Cmd("save", d, "")>>
              \o [n \in 1..Len(inherited) |-> Cmd("inherit", d, inherited[n])]
              \o [n \in 1..Len(repo.linkFiles) |-> Cmd("link-file", d, repo.linkFiles[n])]
  /\ OldNextRepo
  /\ UNCHANGED <<tree, dirLink, previousHeads, failLeft, dirty>>

\* The configurations and trees the runs of this variant start from.
InitOld ==
  /\ \E st \in Strategies \cup {"unset"}, ow \in OverrideCases :
       /\ repos = << Subrepo("d1", Main, <<PkgRef("a", ""), PkgRef("b", "")>>, st,
                             ow[1], <<"x">>, <<"f">>), Second >>
       /\ inWorkspace = ow[2]
  /\ remote = [d \in Dirs |-> 1]
  /\ \E pre \in BOOLEAN : InitTrees(pre, 1)
  /\ desc = [d \in Dirs |-> [p \in PkgPaths |->
               IF p = "b" THEN Descriptor("ok", p, FALSE, FALSE, FALSE) ELSE Full(p)]]
  /\ \E w \in BOOLEAN : isWs = [d \in Dirs |-> d = "d1" /\ w]
  /\ envLeft = MaxEnv
  /\ failLeft = MaxFail
  /\ InitRest
  /\ InitNoFs
  /\ InitHist
  /\ newHeads = <<>>

NextOld ==
  \/ OldStart
  \/ OldRepoBegin
  \/ OldFetch
  \/ OldHead
  \/ OldUnit
  \/ OldRepoEnd
  \/ RemoteMove

\* Runs of the variant src/src/index.ts, one after the other; between runs a
\* remote may move, and commands may exit non-zero.
SpecOld == InitOld /\ [][NextOld]_vars

\* ------------------------------------------------------------ vocabulary of the properties
\* A run has just completed, and nothing changed since.
Done == pc = "idle" /\ outcome = "done" /\ ~dirty

\* The persisted key -> head mapping.
Stored == readJsonFile(file).heads

\* The workspace override of repo is honoured.
Honoured(repo) == inWorkspace /\ repo.workspaceOverride

\* The key of the unit at path p of repo.
KeyOf(repo, p) == Key(IF Honoured(repo) THEN Ov(repo.dir) ELSE repo.dir, p)

\* The most recent commit that touched the subtree of p, in the working tree at d.
OwnHead(d, p) ==
  LET t == tree[Phys(d)]
  IN  IF ~t.exists THEN 0 ELSE IF t.shallow THEN t.head ELSE LastTouch(t.head, p)

\* The package units of the configuration, as <<index of the sub-repo, path>>.
ConfigUnits ==
  {u \in (1..Len(repos)) \X PkgPaths :
     \E n \in 1..Len(UnitsOf(repos[u[1]])) : UnitsOf(repos[u[1]])[n].path = u[2]}

\* Those whose package.json can be read.
ReadableUnits == {u \in ConfigUnits : desc[repos[u[1]].dir][u[2]].st = "ok"}

UnitKey(u) == KeyOf(repos[u[1]], u[2])
UnitDesc(u) == desc[repos[u[1]].dir][u[2]]

\* The install gate of section 4.4: dependencies declared, and not a package
\* of a sub-repo that is a workspace (for the root: not a linked override).
GateInstall(u) ==
  /\ UnitDesc(u).dependencies \/ UnitDesc(u).devDependencies
  /\ IF u[2] = "." THEN ~Honoured(repos[u[1]]) ELSE ~isWs[repos[u[1]].dir]

\* The build gate of section 4.4: a build script, and not the root under install-only.
GateBuild(u) ==
  /\ UnitDesc(u).build
  /\ ~(u[2] = "." /\ repos[u[1]].rootPackageStrategy = "install-only")

Installs(u) == Count("install", repos[u[1]].dir, u[2])
Builds(u) == Count("build", repos[u[1]].dir, u[2])

Heavy == {"fetch", "reset", "install", "build"}

\* ------------------------------------------------------------ C1
\* C1 (idempotence): a run that starts right after a complete run, with the
\* same configuration and nothing changed on the remotes or in the working
\* trees, issues no fetch, reset, install or build, and when it completes the
\* metadata file is what the first run left.
C1_Idempotence ==
  cleanRun =>
    /\ \A n \in 1..Len(cmds) : cmds[n].op \notin Heavy
    /\ Done => file = fileAtStart

\* ------------------------------------------------------------ C2
\* C2 as stated: a unit with no entry at the start of a run gets one install
\* if its descriptor declares dependencies, one build if it declares a build
\* script, and has an entry when the run completes.
C2_AsStated ==
  Done =>
    \A u \in ReadableUnits :
      (/\ ~HasKey(previousHeads, UnitKey(u))
       /\ UnitDesc(u).dependencies \/ UnitDesc(u).devDependencies \/ UnitDesc(u).build) =>
        /\ (UnitDesc(u).dependencies \/ UnitDesc(u).devDependencies) => Installs(u) = 1
        /\ UnitDesc(u).build => Builds(u) = 1
        /\ HasKey(Stored, UnitKey(u))

\* C2, amended: a unit with a readable descriptor and no entry at the start of
\* a run that completes gets exactly one install if its install gate is open
\* and none otherwise, exactly one build if its build gate is open and none
\* otherwise, and has an entry afterwards exactly if one of the gates is open.
C2_FirstRun ==
  Done =>
    \A u \in ReadableUnits :
      ~HasKey(previousHeads, UnitKey(u)) =>
        /\ Installs(u) = IF GateInstall(u) THEN 1 ELSE 0
        /\ Builds(u) = IF GateBuild(u) THEN 1 ELSE 0
        /\ HasKey(Stored, UnitKey(u)) <=> (GateInstall(u) \/ GateBuild(u))

\* A first run installed and built a unit, and left another, with closed gates, without entry.
C2_Witness ==
  /\ Done
  /\ \E u \in ReadableUnits :
       /\ ~HasKey(previousHeads, UnitKey(u))
       /\ GateInstall(u) /\ GateBuild(u)
       /\ Installs(u) = 1 /\ Builds(u) = 1
       /\ HasKey(Stored, UnitKey(u))
  /\ \E u \in ReadableUnits :
       /\ ~HasKey(previousHeads, UnitKey(u))
       /\ ~GateInstall(u) /\ ~GateBuild(u)
       /\ ~HasKey(Stored, UnitKey(u))

\* ------------------------------------------------------------ C3
\* HEAD of the sub-repo differs from what the last complete run left.
HeadMoved(k) ==
  /\ prevHead[repos[k].dir] # 0
  /\ tree[Phys(repos[k].dir)].head # prevHead[repos[k].dir]

\* The most recent commit of the history that touched the subtree of the unit.
SubtreeHead(u) == LastTouch(tree[Phys(repos[u[1]].dir)].head, u[2])

\* The unit's own head is the value the store held for it when the run started.
OwnHeadRecorded(u) ==
  /\ HasKey(previousHeads, UnitKey(u))
  /\ Get(previousHeads, UnitKey(u)) = SubtreeHead(u)

\* C3 (head-scoped skip): when HEAD of a sub-repo moved since the last
\* complete run, a tracked unit whose own head (the most recent commit that
\* touched its subtree) is the recorded one gets no install and no build, and
\* every sibling whose own head differs from its recorded value gets the
\* install and the build its gates allow.
C3_HeadScopedSkip ==
  Done =>
    \A u \in ReadableUnits :
      HeadMoved(u[1]) =>
        IF OwnHeadRecorded(u)
        THEN Installs(u) = 0 /\ Builds(u) = 0
        ELSE /\ Installs(u) = IF GateInstall(u) THEN 1 ELSE 0
             /\ Builds(u) = IF GateBuild(u) THEN 1 ELSE 0

\* ------------------------------------------------------------ C4
ConfigKeys == {UnitKey(u) : u \in ConfigUnits}

\* Keys the store held when the run started, of packages the configuration no longer has.
RemovedKeys == Keys(previousHeads) \ ConfigKeys

RootCmds(d, ops) == {n \in 1..Len(cmds) : cmds[n].dir = d /\ cmds[n].pkg = "." /\ cmds[n].op \in ops}

\* The head of the root unit differs from the value the store held at the start.
RootChanged(k) ==
  Get(previousHeads, KeyOf(repos[k], ".")) # OwnHead(repos[k].dir, ".")

\* C5 (root strategy): under 'ignore' the root gets no install, build, link or
\* head record; under 'install-only' it is installed (install gate open, head
\* changed) and never built or linked; under 'default', also when the option
\* is absent, it is installed, built (build script, head changed) and linked.
C5_RootStrategy ==
  ~dirty => \A k \in 1..Len(repos) :
    LET repo == repos[k]
        d == repo.dir
        u == <<k, ".">>
        pkg == desc[d]["."]
    IN  /\ repo.rootPackageStrategy = "ignore" =>
             /\ RootCmds(d, {"log", "install", "build", "link", "record", "save"}) = {}
             /\ pc # "idle" =>
                  Get(metadata.heads, KeyOf(repo, ".")) = Get(previousHeads, KeyOf(repo, "."))
        /\ repo.rootPackageStrategy = "install-only" =>
             /\ RootCmds(d, {"build", "link"}) = {}
             /\ (Done /\ pkg.st = "ok") =>
                  Installs(u) = IF GateInstall(u) /\ RootChanged(k) THEN 1 ELSE 0
        /\ (repo.rootPackageStrategy \in {"default", "unset"} /\ Done /\ pkg.st = "ok") =>
             /\ Installs(u) = IF GateInstall(u) /\ RootChanged(k) THEN 1 ELSE 0
             /\ Builds(u) = IF pkg.build /\ RootChanged(k) THEN 1 ELSE 0
             /\ Count("link", d, ".") = IF pkg.name # "" THEN 1 ELSE 0

\* One run: the root of the first sub-repo, under install-only, was installed
\* and not built; the root of the second, under ignore, was left alone.
C5_Witness ==
  /\ Done
  /\ repos[1].rootPackageStrategy = "install-only"
  /\ desc["d1"]["."].st = "ok" /\ desc["d1"]["."].build
  /\ Installs(<<1, ".">>) = 1
  /\ repos[2].rootPackageStrategy = "ignore"
  /\ desc["d2"]["."].dependencies /\ desc["d2"]["."].build
  /\ Issued("log", "d2", "a")

\* ------------------------------------------------------------ C6
\* C6 (workspace override bypass): for a sub-repo whose workspaceOverride is
\* set, in a run inside a workspace, no clone, fetch or reset is issued,
\* whatever its ref and whether or not its dir existed; dir is made a link to
\* the override path.
C6_OverrideBypass ==
  ~dirty =>
    \A k \in 1..Len(repos) :
      Honoured(repos[k]) =>
        LET d == repos[k].dir
        IN  /\ \A n \in 1..Len(cmds) :
                 cmds[n].dir = d => cmds[n].op \notin {"clone", "fetch", "reset"}
            /\ Issued("head", d, "") => Issued("link-dir", d, "") /\ dirLink[d]

\* A run completed that linked the first sub-repo, whose ref is a commit other
\* than the one at the override path.
C6_Witness ==
  /\ Done
  /\ Honoured(repos[1])
  /\ repos[1].ref = HashOf(MaxCommit)
  /\ dirLink["d1"]
  /\ ~tree["d1"].exists
  /\ tree["ov1"].head # MaxCommit
  /\ Issued("link-dir", "d1", "")

\* ------------------------------------------------------------ C7
\* A command of the current (or last) run exited non-zero.
Failed == \E n \in 1..Len(cmds) : cmds[n].op = "nonzero"

\* C7 (fatal abort): once a clone, fetch, reset, install or build exited
\* non-zero the run has stopped: until another run starts no command is
\* issued, no link is created, no working tree and no metadata is written.
C7_FatalAbort ==
  [][/\ Failed => (~Failed' \/ UNCHANGED <<cmds, file, links, tree, dirLink, metadata>>)
     /\ Failed' => (pc' = "idle" /\ outcome' = "aborted")]_vars

\* The install of package a failed in the first sub-repo: b and the second sub-repo were never reached.
C7_Witness ==
  /\ Failed
  /\ Issued("nonzero", "d1", "a")
  /\ Issued("install", "d1", "a")
  /\ ~Issued("log", "d1", "b")
  /\ ~tree["d2"].exists
  /\ outcome = "aborted"

\* ------------------------------------------------------------ C8
\* C8 (crash safety): whenever the run is about to process the next unit (or
\* sub-repo, or to finish) the metadata file holds every head recorded so
\* far; and the retry of a run that was cut short, with nothing changed,
\* neither installs nor builds a unit whose head that run had recorded.
C8_CrashSafety ==
  /\ (pc \in {"repo", "head", "install", "links", "finish"} /\ metadata.hasHeads) =>
        file = saveJsonFile(metadata)
  /\ \A u \in retryOf :
        Count("install", u[1], u[2]) = 0 /\ Count("build", u[1], u[2]) = 0

\* The retry completed: it skipped the unit done before the interruption and installed another.
C8_Witness ==
  /\ Done
  /\ <<"d1", "a">> \in retryOf
  /\ Issued("log", "d1", "a")
  /\ <<"d1", "b">> \notin retryOf
  /\ Issued("build", "d1", "b")

RecordedNow(k) ==
  \E u \in ReadableUnits :
    /\ UnitKey(u) = k
    /\ GateInstall(u) \/ GateBuild(u)
    /\ Get(Stored, k) = OwnHead(repos[u[1]].dir, u[2])

\* A key the run kept: the store held it at the start and its directory is on the disk.
KeptFromBefore(k) ==
  /\ HasKey(previousHeads, k)
  /\ KeyExists(k)
  /\ Get(Stored, k) = Get(previousHeads, k)

EffectiveRef(repo) == IF repo.ref = NoRef THEN Main ELSE repo.ref

\* r is the full name of a commit.
FullHash(r) == r \in {HashOf(c) : c \in Commits}

\* The name of the commit the ref stands for on the remote: itself, the tip of
\* the branch, or the commit the tag points at; nothing for a name the remote
\* does not have.
Target(repo) ==
  LET r == EffectiveRef(repo)
  IN  IF FullHash(r) THEN r
      ELSE IF r = Main THEN HashOf(remote[repo.dir])
      ELSE IF r = Tag THEN HashOf(TagCommit)
      ELSE <<>>

\* C10 (ref resolution, fetch avoidance): for an existing clone a full commit
\* hash is never queried on the remote and any other ref is; once the
\* synchronisation of the sub-repo is over, fetch and reset were issued exactly
\* if HEAD differed from the target commit, and neither is ever issued when
\* they are equal.
C10_RefResolution ==
  ~dirty =>
    \A k \in 1..Len(repos) :
      LET repo == repos[k]
          d == repo.dir
          differs == HashOf(headBefore[d]) # Target(repo)
      IN  headBefore[d] # 0 =>
            /\ FullHash(EffectiveRef(repo)) <=> ~Issued("ls-remote", d, "")
            /\ ~differs => ~Issued("fetch", d, "") /\ ~Issued("reset", d, "")
            /\ Issued("head", d, "") =>
                 (differs <=> (Issued("fetch", d, "") /\ Issued("reset", d, "")))

\* ------------------------------------------------------------ C11
\* At `from` is a link, and a walk of `from` ends where a walk of `to` ends.
LinkedTo(fs, from, to) ==
  /\ fs[from].kind = "link"
  /\ RealPath(fs, from) # Loop
  /\ RealPath(fs, from) = RealPath(fs, to)

\* C11 (link idempotence): whatever was at `from` before, a call of
\* ensureSymlink(from, to) raises no error and leaves at `from` a relative link
\* that resolves to `to`; a second call leaves the same entries.
C11_LinkIdempotence ==
  calls >= 1 =>
    /\ ~threw
    /\ LinkedTo(entries, link.from, link.to)
    /\ calls >= 2 => entries = first

\* ------------------------------------------------------------ C12
\* C12 (unset ref): for a sub-repo without ref whose override is not honoured,
\* a run that clones it issues no fetch and no reset for it and leaves it at
\* the tip of the remote's default branch; a run that finds its clone asks for
\* the name of the current branch and for that branch's tip on the remote,
\* fetches and resets exactly if HEAD is not that tip, and leaves it at that tip.
C12_UnsetRef ==
  ~dirty =>
    \A k \in 1..Len(repos) :
      LET repo == repos[k]
          d == repo.dir
          synced == Issued("fetch", d, "") /\ Issued("reset", d, "")
      IN  (repo.ref = NoRef /\ ~Honoured(repo)) =>
            /\ Issued("clone", d, "") =>
                 /\ ~Issued("fetch", d, "") /\ ~Issued("reset", d, "")
                 /\ Issued("head", d, "") => tree[d].head = remote[d]
            /\ headBefore[d] # 0 =>
                 /\ Issued("abbrev-ref", d, "") /\ Issued("ls-remote", d, "")
                 /\ Issued("head", d, "") =>
                      /\ synced <=> headBefore[d] # remote[d]
                      /\ tree[d].head = remote[d]

\* A run completed that found the first sub-repo, without ref, behind its
\* branch and synced it, and cloned the second, without ref, and left it alone.
C12_Witness ==
  /\ Done
  /\ repos[1].ref = NoRef /\ ~Honoured(repos[1])
  /\ headBefore["d1"] # 0 /\ headBefore["d1"] # remote["d1"]
  /\ Issued("fetch", "d1", "") /\ tree["d1"].head = remote["d1"]
  /\ repos[2].ref = NoRef
  /\ Issued("clone", "d2", "") /\ ~Issued("fetch", "d2", "")

\* ------------------------------------------------------------ C13
\* The git commands the run issued for the sub-repo at d.
GitCmds(d) ==
  {cmds[n].op : n \in {m \in 1..Len(cmds) : cmds[m].dir = d}}
    \cap {"clone", "fetch", "reset", "abbrev-ref", "rev-parse", "ls-remote", "head", "log"}

\* C13 as stated: a run issues no git command of any kind for a sub-repo whose
\* workspace override is honoured.
C13_AsStated ==
  ~dirty => \A k \in 1..Len(repos) : Honoured(repos[k]) => GitCmds(repos[k].dir) = {}

\* C13, amended: for a sub-repo whose workspace override is honoured a run
\* issues no clone, fetch or reset, no query of the current branch, no query of
\* the remote and no query of HEAD before the link is made; it does query HEAD
\* once through the link, and the log of every unit whose descriptor it can read.
C13_OverrideQueries ==
  ~dirty =>
    \A k \in 1..Len(repos) :
      LET d == repos[k].dir
      IN  Honoured(repos[k]) =>
            /\ GitCmds(d) \subseteq {"head", "log"}
            /\ Count("head", d, "") <= 1
            /\ \A p \in PkgPaths :
                 /\ Issued("log", d, p) => Issued("head", d, "") /\ <<k, p>> \in ReadableUnits
                 /\ (Done /\ <<k, p>> \in ReadableUnits) => Count("log", d, p) = 1

\* A run completed that linked the first sub-repo to its override, and queried
\* HEAD and the log of a unit through the link.
C13_Witness ==
  /\ Done
  /\ Honoured(repos[1])
  /\ Issued("link-dir", "d1", "")
  /\ GitCmds("d1") = {"head", "log"}
  /\ Issued("log", "d1", "a")

\* ------------------------------------------------------------ C14
\* The units of the configuration whose descriptor cannot be read.
UnreadableUnits == ConfigUnits \ ReadableUnits

\* C14 (recoverable and skip): a unit, root or not, whose descriptor cannot be
\* read gets no log query, no install, no build, no link and no head record;
\* the run does not end there (a run ends early only after a command that
\* exited non-zero), and a run that completes warned about every such unit,
\* queried HEAD of every sub-repo and the log of every readable unit.
C14_RecoverableSkip ==
  ~dirty =>
    /\ \A u \in UnreadableUnits :
         \A op \in {"log", "install", "build", "link", "record", "save"} :
           ~Issued(op, repos[u[1]].dir, u[2])
    /\ outcome = "aborted" => \E n \in 1..Len(cmds) : cmds[n].op = "nonzero"
    /\ Done =>
         /\ \A u \in UnreadableUnits : Issued("warn", repos[u[1]].dir, u[2])
         /\ \A k \in 1..Len(repos) : Issued("head", repos[k].dir, "")
         /\ \A u \in ReadableUnits : Issued("log", repos[u[1]].dir, u[2])

\* A run completed that skipped the root and a package of the first sub-repo,
\* and went on to build the package after them and to process the second sub-repo.
C14_Witness ==
  /\ Done
  /\ {<<1, ".">>, <<1, "a">>} \subseteq UnreadableUnits
  /\ Issued("warn", "d1", ".") /\ Issued("warn", "d1", "a")
  /\ Issued("build", "d1", "b")
  /\ Issued("install", "d2", "a")

\* ------------------------------------------------------------ C15
\* C15 (recoverable and default): a run that starts without a metadata file it
\* can read ends early only after a command exited non-zero; when it completes,
\* every readable unit got an install exactly if its install gate is open and a
\* build exactly if its build gate is open, and for every unit with an open
\* gate the file is well-formed and holds the unit's head.
C15_RecoverableDefault ==
  (~dirty /\ fileAtStart.st # "ok") =>
    /\ outcome = "aborted" => \E n \in 1..Len(cmds) : cmds[n].op = "nonzero"
    /\ Done =>
         \A u \in ReadableUnits :
           /\ Installs(u) = IF GateInstall(u) THEN 1 ELSE 0
           /\ Builds(u) = IF GateBuild(u) THEN 1 ELSE 0
           /\ (GateInstall(u) \/ GateBuild(u)) =>
                /\ file.st = "ok"
                /\ Get(Stored, UnitKey(u)) = OwnHead(repos[u[1]].dir, u[2])

\* A run completed that found the file of an earlier run damaged, installed and
\* built a unit that run had recorded, and left a well-formed file.
C15_Witness ==
  /\ Done
  /\ fileAtStart.st = "malformed"
  /\ \E u \in ReadableUnits :
       /\ HasKey(fileAtStart.data.heads, UnitKey(u))
       /\ Installs(u) = 1 /\ Builds(u) = 1
       /\ HasKey(Stored, UnitKey(u))
  /\ file.st = "ok"

\* ------------------------------------------------------------ C16
\* C16 (installed state matches the recorded head): when a run has completed,
\* for every unit that has a recorded head and an open install gate, the last
\* install of the unit that exited zero, in this run or any run before, ran
\* while the unit's package head was the value now recorded.
C16_InstalledMatchesRecorded ==
  Done =>
    \A u \in ReadableUnits :
      (HasKey(Stored, UnitKey(u)) /\ GateInstall(u)) =>
        installedAt[UnitKey(u)] = Get(Stored, UnitKey(u))

\* ------------------------------------------------------------ C17
\* C17 (build-skip soundness): when a run has completed without a build of a
\* unit that has a build script and an open build gate, a build of that unit
\* at its present package head exited zero in an earlier run.
C17_BuildSkipSound ==
  Done =>
    \A u \in ReadableUnits :
      (GateBuild(u) /\ Builds(u) = 0) =>
        OwnHead(repos[u[1]].dir, u[2]) \in builtAt[UnitKey(u)]

\* ------------------------------------------------------------ C18
\* Position of the sub-repo at d in the configuration.
RepoIndex(d) == CHOOSE k \in 1..Len(repos) : repos[k].dir = d

\* The phase of a sub-repo a command belongs to: synchronisation, package
\* units, links of inherited dependencies and files.
Phase(c) ==
  IF c.op \in {"link-dir", "clone", "abbrev-ref", "rev-parse", "ls-remote", "fetch",
               "reset", "head"} THEN 1
  ELSE IF c.op \in {"inherit", "link-file"} \/ (c.op = "warn" /\ c.pkg \notin PkgPaths) THEN 3
  ELSE 2

\* The place of a command in the processing of one unit.
Rank(c) ==
  IF c.op \in {"log", "warn"} THEN 1
  ELSE IF c.op = "install" THEN 2
  ELSE IF c.op = "build" THEN 3
  ELSE IF c.op = "link" THEN 4
  ELSE IF c.op = "record" THEN 5
  ELSE 6

\* The commands of the run that belong to a sub-repo, in the order of their issue.
RepoCmds == {n \in 1..Len(cmds) : cmds[n].dir # "" /\ cmds[n].op # "nonzero"}

\* C18 (ordering): of two commands of a run the earlier one belongs to the same
\* or an earlier sub-repo of the configuration; within a sub-repo to the same or
\* an earlier phase (synchronisation, units, links); and within a unit to an
\* earlier place in log, install, build, link, record, save.
C18_Ordering ==
  \A m, n \in RepoCmds :
    m < n =>
      /\ RepoIndex(cmds[m].dir) <= RepoIndex(cmds[n].dir)
      /\ cmds[m].dir = cmds[n].dir =>
           /\ Phase(cmds[m]) <= Phase(cmds[n])
           /\ (Phase(cmds[m]) = 2 /\ Phase(cmds[n]) = 2 /\ cmds[m].pkg = cmds[n].pkg) =>
                Rank(cmds[m]) < Rank(cmds[n])

\* A run completed that fetched and reset the first sub-repo, installed, built
\* and recorded a unit, made the links, and then processed the second sub-repo.
C18_Witness ==
  /\ Done
  /\ Issued("fetch", "d1", "") /\ Issued("reset", "d1", "")
  /\ Issued("install", "d1", "a") /\ Issued("build", "d1", "a") /\ Issued("record", "d1", "a")
  /\ Issued("inherit", "d1", "x") /\ Issued("link-file", "d1", "f")
  /\ Issued("clone", "d2", "") /\ Issued("install", "d2", "a")

\* ------------------------------------------------------------ C19
\* isWorkspace(path.join(repo.dir, p)): the trees of the model hold a
\* pnpm-workspace.yaml at the root of a sub-repo only.
isWorkspaceAt(d, p) == p = "." /\ isWs[d]

\* The package head the run computes for the unit differs from the one the
\* store held for it when the run started.
UnitChanged(u) == Get(previousHeads, UnitKey(u)) # OwnHead(repos[u[1]].dir, u[2])

\* The install gate as the claim words it: dependencies declared, and the
\* package is not a workspace root inside a sub-repo that is a workspace.
StatedInstallGate(u) ==
  /\ UnitDesc(u).dependencies \/ UnitDesc(u).devDependencies
  /\ ~(isWorkspaceAt(repos[u[1]].dir, u[2]) /\ isWs[repos[u[1]].dir])

\* C19 as stated: in a run that completes, pnpm install is invoked for a unit
\* if and only if the unit declares dependencies, is not itself a workspace
\* root inside a sub-repo that is a workspace, and its head changed.
C19_AsStated ==
  Done =>
    \A u \in ReadableUnits :
      Installs(u) = IF StatedInstallGate(u) /\ UnitChanged(u) THEN 1 ELSE 0

\* C19, amended: in a run that completes, pnpm install is invoked for a unit,
\* once, if and only if the unit declares dependencies or devDependencies,
\* the sub-repo is not a linked override (root package) or holds no
\* pnpm-workspace.yaml (any other package), and the unit's head changed.
C19_InstallGate ==
  Done =>
    \A u \in ReadableUnits :
      Installs(u) = IF GateInstall(u) /\ UnitChanged(u) THEN 1 ELSE 0

\* A run completed in which the root of a workspace sub-repo, its head changed,
\* was installed, and a package of it that declares dependencies, its head
\* changed as well, was not.
C19_Witness ==
  /\ Done
  /\ \E k \in 1..Len(repos) :
       /\ isWs[repos[k].dir]
       /\ <<k, ".">> \in ReadableUnits
       /\ GateInstall(<<k, ".">>) /\ UnitChanged(<<k, ".">>) /\ Installs(<<k, ".">>) = 1
       /\ \E u \in ReadableUnits :
            /\ u[1] = k /\ u[2] # "."
            /\ UnitDesc(u).dependencies \/ UnitDesc(u).devDependencies
            /\ UnitChanged(u) /\ Installs(u) = 0

\* ------------------------------------------------------------ C20
\* One of the two gates of the unit is open.
Tracked(u) == GateInstall(u) \/ GateBuild(u)

Records(u) == Count("record", repos[u[1]].dir, u[2])

\* C20 (tracking rule): a run records the head of a unit only if the install
\* gate or the build gate of the unit is open, and at most once; a run that
\* completes has recorded it exactly if one of the gates is open, whether or
\* not the head changed, and the store then holds the package head the run
\* computed for the unit; a unit with no open gate and no key at the start of
\* the run has no key at its end.
C20_TrackingRule ==
  ~dirty =>
    \A u \in ReadableUnits :
      /\ Records(u) <= IF Tracked(u) THEN 1 ELSE 0
      /\ Done =>
           /\ Records(u) = IF Tracked(u) THEN 1 ELSE 0
           /\ Tracked(u) =>
                /\ HasKey(Stored, UnitKey(u))
                /\ Get(Stored, UnitKey(u)) = OwnHead(repos[u[1]].dir, u[2])
           /\ (~Tracked(u) /\ ~HasKey(previousHeads, UnitKey(u))) =>
                ~HasKey(Stored, UnitKey(u))

\* A run completed that recorded the head of a unit whose head had not
\* changed, and left a unit that declares neither dependencies nor a build
\* script without a key.
C20_Witness ==
  /\ Done
  /\ \E u \in ReadableUnits :
       /\ Tracked(u) /\ ~UnitChanged(u)
       /\ Records(u) = 1
       /\ Get(Stored, UnitKey(u)) = OwnHead(repos[u[1]].dir, u[2])
  /\ \E u \in ReadableUnits :
       /\ ~UnitDesc(u).dependencies /\ ~UnitDesc(u).devDependencies /\ ~UnitDesc(u).build
       /\ Records(u) = 0
       /\ ~HasKey(Stored, UnitKey(u))

\* ------------------------------------------------------------ C21
\* What loading the metadata file yields as `heads`.
Reloaded == readMetadata(file).heads

\* The writes of the metadata file the run has made so far.
Writes == {n \in 1..Len(cmds) : cmds[n].op = "save"}

\* The units whose head the run had recorded when it made its last write.
RecordedByLastWrite ==
  {Key(cmds[n].dir, cmds[n].pkg) :
     n \in {m \in 1..Len(cmds) : cmds[m].op = "record" /\ \E w \in Writes : m < w}}

\* C21 (writes of the older variant): while a run of src/src/index.ts that has
\* written the metadata file is in progress, loading the file yields as
\* `heads` every head the run had recorded when it made its last write.
C21_WritesUnderHeads ==
  (pc \in {"old-repo", "old-fetch", "old-head", "old-unit", "old-save"} /\ Writes # {}) =>
    \A k \in RecordedByLastWrite :
      /\ HasKey(Reloaded, k)
      /\ Get(Reloaded, k) = Get(newHeads, k)

====
